---- MODULE Spec2Model ----
(***************************************************************************)
(* A model of code/model/deepsense.py: the DeepSense model object, the     *)
(* graph's variable registry it builds into, and the checkpoints it saves  *)
(* to and loads from its directory.                                        *)
(*                                                                         *)
(* The TensorFlow 1.x calls of the file are modelled by what the library   *)
(* does: tf.variable_scope / get_variable (create, or look up under        *)
(* reuse), tf.get_collection (re.match of the scope against each name),    *)
(* tf.train.Saver (the variables of the graph at construction, its own     *)
(* list of last checkpoints, max_to_keep), tf.layers.conv2d (valid         *)
(* padding), tf.layers.dropout (rate is the fraction dropped),             *)
(* DropoutWrapper (output_keep_prob is the fraction kept), tf.arg_max.     *)
(***************************************************************************)
EXTENDS Integers, Sequences, FiniteSets, TLC

VARIABLES
    params,      \* the hyperparameter bundle every instance is constructed with
    collection,  \* the graph's GLOBAL_VARIABLES collection: variable names, in creation order
    val,         \* the session's value of each variable
    obj,         \* the DeepSense instances: obj[i] holds the fields of instance i
    disk,        \* disk[n]: the directory <save_dir>/<n>
    ret,         \* the last call, when it returned a value or raised: the operation, the instance, the result
    read,        \* the last call, when it read weights or ran the graph: what it yielded
    lastSave,    \* history: per directory, who saved last, the values then, whether updated since
    firstBind    \* history: per name, the variables the first build_model(reuse=False) created

vars == <<params, collection, val, obj, disk, ret, read, lastSave, firstBind>>

-----------------------------------------------------------------------------
(* Bounds of the model. *)

MaxInst == 2      \* instances alive in one process
MaxStep == 2      \* save_model(step): step in 1..MaxStep
MaxVal == 1       \* parameter values 0..MaxVal
MaxBatch == 2     \* batch sizes 1..MaxBatch
MaxWindow == 3    \* window sizes 2..MaxWindow
MaxSaves == 32    \* the retention run saves steps 1..MaxSaves

(* tf.train.Saver(max_to_keep=30) *)
max_to_keep == 30

Instances == 1..MaxInst
Steps == 1..MaxStep
Values == 0..MaxVal

(* The Q-values a run of the graph may yield. *)
QValues == {0, 1}

(* Model names, as their characters: "q" and "qt".  save_model is given a   *)
(* step each time (its default, step=None, writes the one file <name>).     *)
Names == { <<"q">>, <<"q", "t">> }

Range(s) == { s[k] : k \in DOMAIN s }

RECURSIVE Prod(_)
Prod(s) == IF s = <<>> THEN 1 ELSE Head(s) * Prod(Tail(s))

-----------------------------------------------------------------------------
(* Hyperparameter bundles (DeepSenseParams).  Keep-probabilities are in     *)
(* percent.  Only well-formed bundles: at least one convolution stage, every*)
(* kernel no wider than the width that reaches it, at least one GRU cell.   *)

RECURSIVE KernelsFit(_, _)
KernelsFit(w, ks) ==
    IF ks = <<>> THEN TRUE
    ELSE Head(ks) <= w /\ KernelsFit(w - Head(ks) + 1, Tail(ks))

(* The convolution stack: <<filter_sizes, kernel_sizes>>. *)
ConvConfigs ==
    { <<f, k>> \in ({<<2>>} \X {<<1>>, <<2>>}) \cup ({<<2, 1>>} \X {<<1, 2>>, <<2, 1>>, <<2, 2>>}) : TRUE }

(* <<conv_keep_prob, dense_keep_prob, gru_keep_prob>>, in percent. *)
KeepProbs == { <<80, 80, 80>>, <<50, 50, 50>>, <<20, 90, 70>> }

(* The recurrent and dense part: <<gru_num_cells, dense_layer_sizes, num_actions>>. *)
HeadConfigs == { <<1, <<>>, 2>>, <<2, <<3, 2>>, 3>> }

Bundles ==
    { [ window_size |-> w, split_size |-> 2, num_channels |-> 1,
        filter_sizes |-> c[1], kernel_sizes |-> c[2],
        gru_num_cells |-> h[1], gru_cell_size |-> 2,
        dense_layer_sizes |-> h[2],
        conv_keep_prob |-> kp[1], dense_keep_prob |-> kp[2], gru_keep_prob |-> kp[3],
        num_actions |-> h[3] ] :
        w \in 2..MaxWindow, c \in ConvConfigs, h \in HeadConfigs, kp \in KeepProbs }

ValidBundles == { p \in Bundles : KernelsFit(p.window_size, p.kernel_sizes) }

(* The bundle of the checkpoint runs: the smallest network. *)
SessionBundles ==
    { p \in ValidBundles :
        /\ p.window_size = 2 /\ p.kernel_sizes = <<1>> /\ p.gru_num_cells = 1
        /\ p.dense_layer_sizes = <<>> /\ p.conv_keep_prob = 80 /\ p.num_actions = 2 }

-----------------------------------------------------------------------------
(* Variable names.  A name is the sequence of the model name's characters,  *)
(* then "/" and the components of the path, each a token.                   *)

Slash == "/"

RECURSIVE JoinSlash(_)
JoinSlash(parts) ==
    IF parts = <<>> THEN <<>>
    ELSE IF Len(parts) = 1 THEN Head(parts)
    ELSE Head(parts) \o <<Slash>> \o JoinSlash(Tail(parts))

(* str.split('/'): the pieces between the "/" tokens. *)
RECURSIVE SplitSlash(_)
SplitSlash(s) ==
    IF \A k \in DOMAIN s : s[k] # Slash THEN <<s>>
    ELSE LET k == CHOOSE j \in DOMAIN s : s[j] = Slash /\ \A h \in 1..(j - 1) : s[h] # Slash
         IN <<SubSeq(s, 1, k - 1)>> \o SplitSlash(SubSeq(s, k + 1, Len(s)))

(* The parametrised layers build_model creates for a bundle, in order: each *)
(* is <<kind, the variable-scope path of the layer>>.                       *)
RECURSIVE ConvLayers(_, _)
ConvLayers(i, n) ==
    IF i > n THEN <<>>
    ELSE << <<"conv", <<"conv_layers">>, <<"conv_layer_" \o ToString(i)>>, <<"conv_" \o ToString(i)>> >>,
            <<"batch_norm", <<"conv_layers">>, <<"conv_layer_" \o ToString(i)>>, <<"batch_norm_" \o ToString(i)>> >> >>
         \o ConvLayers(i + 1, n)

RECURSIVE GruLayers(_, _)
GruLayers(i, n) ==
    IF i >= n THEN <<>>
    ELSE << <<"gru", <<"rnn">>, <<"multi_rnn_cell">>, <<"cell_" \o ToString(i)>>, <<"gru_cell">> >> >>
         \o GruLayers(i + 1, n)

RECURSIVE DenseLayers(_, _)
DenseLayers(i, n) ==
    IF i > n THEN <<>>
    ELSE << <<"dense", <<"fully_connected">>, <<"dense_layer_" \o ToString(i)>>, <<"dense_" \o ToString(i)>> >> >>
         \o DenseLayers(i + 1, n)

Layers(p) ==
    ConvLayers(1, Len(p.filter_sizes))
    \o GruLayers(0, p.gru_num_cells)
    \o DenseLayers(1, Len(p.dense_layer_sizes))
    \o << <<"dense", <<"q_values">> >> >>

(* The path of a layer below the model's scope: its components joined.  One *)
(* variable stands for the tensors of a layer (kernel, bias, ...), which are*)
(* created, saved and restored together; its key is the layer's path.       *)
LayerPath(layer) == JoinSlash(Tail(layer))

(* Every variable key of a model with bundle p, in creation order. *)
ModelKeys(p) == [ k \in DOMAIN Layers(p) |-> LayerPath(Layers(p)[k]) ]

(* The full name of a variable: the model's scope, "/", the key. *)
VarName(name, key) == name \o <<Slash>> \o key

(* The keys of each bundle, and the variable names of each model name and   *)
(* bundle, tabulated.                                                       *)
KeysOf == [ p \in ValidBundles |-> ModelKeys(p) ]

NamesOf ==
    [ n \in Names |-> [ p \in ValidBundles |->
        [ k \in DOMAIN KeysOf[p] |-> VarName(n, KeysOf[p][k]) ] ] ]

(* The top-level scope component of a variable name: name.split('/')[0]. *)
TopScope(v) == SplitSlash(v)[1]

(* The variables of the graph that belong to the scope of model `name`. *)
OwnParams(name) == { v \in Range(collection) : TopScope(v) = name }

-----------------------------------------------------------------------------
(* The layers of the graph, as the shapes and survival probabilities they   *)
(* produce.  A shape is the sequence of a tensor's dimensions.              *)

(* The output length of a 'valid' convolution along one axis. *)
ValidOut(n, k, stride) == (n - k + stride) \div stride

(* The layer with padding 'same': the width stays as it came in. *)
conv2d_layer_same(shape, filter_size, kernel_size) ==
    <<shape[1], shape[2], shape[3], filter_size>>

(* tf.layers.conv2d on (batch, height, width, channels): kernel             *)
(* [1, kernel_size], strides (1, 1), padding 'valid'.                       *)
conv2d_layer(shape, filter_size, kernel_size) ==
    <<shape[1], ValidOut(shape[2], 1, 1), ValidOut(shape[3], kernel_size, 1), filter_size>>

(* tf.layers.batch_normalization and tf.nn.relu keep the shape. *)
batch_norm_layer(shape) == shape

(* tf.layers.dense on (batch, features): (batch, num_units). *)
dense_layer(shape, num_units) == <<shape[1], num_units>>

(* tf.layers.dropout(rate, training): in training a unit is dropped with    *)
(* probability rate, so it survives with probability 1 - rate; outside      *)
(* training the layer is the identity.  In percent.                         *)
dropout(rate, training) == IF training THEN 100 - rate ELSE 100

(* dropout_conv_layer: the code hands keep_prob to tf.layers.dropout as its *)
(* rate.  The record holds the configured value and the survival            *)
(* probability the layer has.                                               *)
dropout_conv_layer(train, keep_prob, name) ==
    [ name |-> name, stage |-> "conv", configured |-> keep_prob,
      training |-> train, keep |-> dropout(keep_prob, train) ]

dropout_dense_layer(train, keep_prob, name) ==
    [ name |-> name, stage |-> "dense", configured |-> keep_prob,
      training |-> train, keep |-> dropout(keep_prob, train) ]

(* tf.contrib.rnn.DropoutWrapper(cell, output_keep_prob): an output is kept *)
(* with probability output_keep_prob.  Only wrapped when train.             *)
DropoutWrapper(output_keep_prob, i) ==
    [ name |-> "gru_" \o ToString(i), stage |-> "gru", configured |-> output_keep_prob,
      training |-> TRUE, keep |-> output_keep_prob ]

(* The convolution stack of build_model, stages i..num_convs: the shape,    *)
(* the window size the loop tracks, and the dropout layers added.           *)
RECURSIVE ConvStack(_, _, _, _, _)
ConvStack(i, shape, window_size, p, train) ==
    LET num_convs == Len(p.filter_sizes) IN
    IF i > num_convs THEN [ shape |-> shape, window_size |-> window_size, dropouts |-> <<>> ]
    ELSE LET w == window_size - p.kernel_sizes[i] + 1
             out == batch_norm_layer(conv2d_layer(shape, p.filter_sizes[i], p.kernel_sizes[i]))
             rest == ConvStack(i + 1, out, w, p, train)
             drop == IF i < num_convs
                     THEN <<dropout_conv_layer(train, p.conv_keep_prob, "dropout_conv_" \o ToString(i))>>
                     ELSE <<>>
         IN [ rest EXCEPT !.dropouts = drop \o @ ]

(* The GRU cells of build_model, cells i..gru_num_cells - 1: the dropout    *)
(* wrappers added.                                                          *)
RECURSIVE GruCells(_, _, _)
GruCells(i, p, train) ==
    IF i >= p.gru_num_cells THEN <<>>
    ELSE (IF train THEN <<DropoutWrapper(p.gru_keep_prob, i)>> ELSE <<>>) \o GruCells(i + 1, p, train)

(* The dense stack of build_model, layers i..num_dense_layers. *)
RECURSIVE DenseStack(_, _, _, _)
DenseStack(i, shape, p, train) ==
    LET num_dense_layers == Len(p.dense_layer_sizes) IN
    IF i > num_dense_layers THEN [ shape |-> shape, dropouts |-> <<>> ]
    ELSE LET out == dense_layer(shape, p.dense_layer_sizes[i])
             rest == DenseStack(i + 1, out, p, train)
             drop == IF i < num_dense_layers
                     THEN <<dropout_dense_layer(train, p.dense_keep_prob, "dropout_dense_" \o ToString(i))>>
                     ELSE <<>>
         IN [ rest EXCEPT !.dropouts = drop \o @ ]

arg_min(row) ==
    CHOOSE j \in 0..(Len(row) - 1) :
        /\ \A c \in DOMAIN row : row[j + 1] <= row[c]
        /\ \A h \in 0..(j - 1) : row[h + 1] > row[j + 1]

(* tf.arg_max along the last axis of one row: the smallest index (from 0)   *)
(* of a largest entry.                                                      *)
arg_max(row) ==
    CHOOSE j \in 0..(Len(row) - 1) :
        /\ \A c \in DOMAIN row : row[j + 1] >= row[c]
        /\ \A h \in 0..(j - 1) : row[h + 1] < row[j + 1]

(* The graph build_model lays out for bundle p, batch size b: its shapes    *)
(* and its dropout layers.                                                  *)
Graph(p, b, train) ==
    LET input == <<b, p.split_size, p.window_size, p.num_channels>>
        conv == ConvStack(1, input, p.window_size, p, train)
        flat == <<b, p.split_size, conv.window_size * p.filter_sizes[Len(p.filter_sizes)]>>
        cells == GruCells(0, p, train)
        output == <<flat[1], p.gru_cell_size>>
        dense == DenseStack(1, output, p, train)
        values == dense_layer(dense.shape, p.num_actions)
    IN [ built |-> TRUE, batch_size |-> b, train |-> train,
         conv_shape |-> conv.shape, window_size |-> conv.window_size, flat_shape |-> flat,
         dropouts |-> conv.dropouts \o cells \o dense.dropouts,
         values |-> values, action |-> <<values[1]>> ]

GraphOf ==
    [ p \in ValidBundles |-> [ b \in 1..MaxBatch |-> [ train \in BOOLEAN |-> Graph(p, b, train) ] ] ]

NoGraph ==
    [ built |-> FALSE, batch_size |-> 0, train |-> FALSE,
      conv_shape |-> <<>>, window_size |-> 0, flat_shape |-> <<>>,
      dropouts |-> <<>>, values |-> <<>>, action |-> <<>> ]

-----------------------------------------------------------------------------
(* The objects and the directory.                                           *)

EmptyMap == [ x \in {} |-> 0 ]

(* self._saver = None *)
NoSaver == [ set |-> FALSE, vars |-> {}, last |-> <<>> ]

(* self._weights = None *)
NoWeights == [ set |-> FALSE, map |-> EmptyMap ]

(* An instance not constructed. *)
NoObj ==
    [ made |-> FALSE, name |-> <<>>, saver |-> NoSaver, weights |-> NoWeights,
      graph |-> NoGraph, bind |-> EmptyMap ]

(* A directory: whether it exists, its checkpoint files (step -> the values *)
(* written), and the "checkpoint" state file naming the latest one.         *)
NoDir == [ exists |-> FALSE, files |-> EmptyMap, has_state |-> FALSE, latest |-> 0 ]

(* ret after a call that returned nothing and raised nothing. *)
NoRet == [ op |-> "none", inst |-> 0, result |-> "None" ]

NoRead == [ op |-> "none", inst |-> 0 ]

NoSave == [ by |-> 0, vals |-> EmptyMap, updated |-> FALSE ]

(* tf.train.Saver(max_to_keep=30) with no var_list: the saver of every      *)
(* variable the graph holds when it is constructed.                         *)
Saver(coll) == [ set |-> TRUE, vars |-> Range(coll), last |-> <<>> ]

(* tf.get_variable for each name in turn under a reuse flag: without reuse  *)
(* a name that exists is an error and a new one is created; with reuse a    *)
(* name that does not exist is an error and nothing is ever created.        *)
RECURSIVE GetVariablesDup(_, _, _)
GetVariablesDup(names, coll, reuse) ==
    IF names = <<>> THEN [ coll |-> coll, ok |-> TRUE ]
    ELSE IF ~reuse /\ Head(names) \in Range(coll) THEN [ coll |-> coll, ok |-> FALSE ]
    ELSE GetVariablesDup(Tail(names), Append(coll, Head(names)), reuse)

RECURSIVE GetVariables(_, _, _)
GetVariables(names, coll, reuse) ==
    IF names = <<>> THEN [ coll |-> coll, ok |-> TRUE ]
    ELSE LET exists == Head(names) \in Range(coll) IN
         IF reuse
         THEN IF exists THEN GetVariables(Tail(names), coll, reuse)
              ELSE [ coll |-> coll, ok |-> FALSE ]
         ELSE IF exists THEN [ coll |-> coll, ok |-> FALSE ]
              ELSE GetVariables(Tail(names), Append(coll, Head(names)), reuse)

(* Saver._RecordLastCheckpoint: the path leaves the list if it is there, is *)
(* appended, and the oldest is dropped once the list is over max_to_keep.   *)
Without(seq, x) == SelectSeq(seq, LAMBDA y : y # x)

RecordLast(last, step) ==
    LET l == Append(Without(last, step), step)
    IN IF Len(l) > max_to_keep THEN Tail(l) ELSE l

(* The checkpoints Saver.save deletes: the one dropped from the list. *)
Dropped(last, step) ==
    LET l == Append(Without(last, step), step)
    IN IF Len(l) > max_to_keep THEN {Head(l)} ELSE {}

(* re.match(scope, name): the scope, a plain name, matches at the start.    *)
ReMatch(scope, name) ==
    Len(name) >= Len(scope) /\ SubSeq(name, 1, Len(scope)) = scope

(* tf.get_collection(GLOBAL_VARIABLES, scope): the variables whose name the *)
(* scope matches, in collection order.                                      *)
GetCollection(coll, scope) == SelectSeq(coll, LAMBDA v : ReMatch(scope, v))

(* "/".join(variable.name.split('/')[1:]) *)
WeightKey(v) == JoinSlash(Tail(SplitSlash(v)))

(* The dictionary the loop of `weights` fills from the variables collected: *)
(* a later variable with the same key replaces an earlier one.              *)
WeightsDict(variables) ==
    [ key \in { WeightKey(variables[k]) : k \in DOMAIN variables } |->
        variables[CHOOSE j \in DOMAIN variables :
                      /\ WeightKey(variables[j]) = key
                      /\ \A h \in DOMAIN variables : WeightKey(variables[h]) = key => h <= j] ]

WeightsOf(coll, name) == WeightsDict(GetCollection(coll, name))

-----------------------------------------------------------------------------
(* The operations.                                                          *)

(* DeepSense.__init__ *)
Construct(i, name) ==
    /\ ~obj[i].made
    /\ obj' = [ obj EXCEPT ![i] = [ NoObj EXCEPT !.made = TRUE, !.name = name ] ]
    /\ disk' = [ disk EXCEPT ![name].exists = TRUE ]
    /\ ret' = NoRet
    /\ read' = NoRead
    /\ UNCHANGED <<params, collection, val, lastSave, firstBind>>

(* DeepSense.build_model(inputs, train, reuse), inputs a batch of b items. *)
(* The variables a build binds its layers to: key -> the variable of that   *)
(* name in the scope.                                                       *)
Bindings(name, keys) == [ key \in Range(keys) |-> VarName(name, key) ]

(* The body of build_model once its variables were asked for (got): the     *)
(* graph and a new saver when every variable was there, else the error.     *)
Built(i, b, train, reuse, name, got) ==
    /\ collection' = got.coll
    /\ val' = [ v \in Range(got.coll) |-> IF v \in DOMAIN val THEN val[v] ELSE 0 ]
    /\ IF got.ok
       THEN /\ obj' = [ obj EXCEPT ![i].graph = GraphOf[params][b][train],
                                   ![i].bind = Bindings(name, KeysOf[params]),
                                   ![i].saver = Saver(got.coll) ]
            /\ firstBind' = IF reuse THEN firstBind
                            ELSE [ firstBind EXCEPT ![name] = Bindings(name, KeysOf[params]) ]
            /\ lastSave' = lastSave
            /\ ret' = NoRet
       ELSE /\ obj' = [ obj EXCEPT ![i].graph.batch_size = b ]
            /\ ret' = [ op |-> "build_model", inst |-> i, result |-> "ValueError" ]
            /\ UNCHANGED <<firstBind, lastSave>>

build_model(i, b, train, reuse) ==
    /\ obj[i].made
    /\ Built(i, b, train, reuse, obj[i].name,
             GetVariables(NamesOf[obj[i].name][params], collection, reuse))
    /\ read' = NoRead
    /\ UNCHANGED <<params, disk>>

(* DeepSense.save_model(step): Saver.save writes the values of the saver's  *)
(* variables to <model_dir>/<name>-<step>, records it as the latest in the  *)
(* directory's state file, and deletes what its own list drops.             *)
save_model(i, step) ==
    /\ obj[i].made
    /\ LET name == obj[i].name
           saver == obj[i].saver
           dir == disk[name]
       IN IF ~saver.set
          THEN /\ ret' = [ op |-> "save_model", inst |-> i, result |-> "AttributeError" ]
               /\ UNCHANGED <<obj, disk, lastSave>>
          ELSE LET snap == [ v \in saver.vars |-> val[v] ]
                   keep == (DOMAIN dir.files \cup {step}) \ Dropped(saver.last, step)
               IN /\ disk' = [ disk EXCEPT ![name].files = [ s \in keep |-> IF s = step THEN snap ELSE dir.files[s] ],
                                           ![name].has_state = TRUE,
                                           ![name].latest = step ]
                  /\ obj' = [ obj EXCEPT ![i].saver.last = RecordLast(saver.last, step) ]
                  /\ lastSave' = [ lastSave EXCEPT ![name] = [ by |-> i, vals |-> [ v \in OwnParams(name) |-> val[v] ], updated |-> FALSE ] ]
                  /\ ret' = NoRet
    /\ read' = NoRead
    /\ UNCHANGED <<params, collection, val, firstBind>>

(* A restore that reports success and assigns nothing.                      *)
RestoredNothing(saver, snap) == { [ result |-> "True", assigned |-> {} ] }

(* Saver.restore: every variable of the saver is read from the checkpoint   *)
(* and assigned.  A variable the checkpoint lacks is a NotFoundError, and   *)
(* then the others may or may not have been assigned (here: the variables   *)
(* of any of the scopes found).                                             *)
Restored(saver, snap) ==
    LET found == saver.vars \cap DOMAIN snap
    IN IF found = saver.vars
       THEN { [ result |-> "True", assigned |-> found ] }
       ELSE { [ result |-> "NotFoundError", assigned |-> { v \in found : TopScope(v) \in ss } ] :
                ss \in SUBSET { TopScope(v) : v \in found } }

(* load_model with the saver looked up before the checkpoint state.         *)
load_model_saver_first(i) ==
    /\ obj[i].made
    /\ LET name == obj[i].name
           saver == obj[i].saver
           dir == disk[name]
       IN IF ~saver.set
          THEN /\ ret' = [ op |-> "load_model", inst |-> i, result |-> "AttributeError" ]
               /\ val' = val
          ELSE IF dir.has_state /\ dir.latest \in DOMAIN dir.files
          THEN \E r \in Restored(saver, dir.files[dir.latest]) :
               /\ val' = [ v \in DOMAIN val |->
                             IF v \in r.assigned THEN dir.files[dir.latest][v] ELSE val[v] ]
               /\ ret' = [ op |-> "load_model", inst |-> i, result |-> r.result ]
          ELSE /\ ret' = [ op |-> "load_model", inst |-> i, result |-> "False" ]
               /\ val' = val
    /\ read' = NoRead
    /\ UNCHANGED <<params, collection, obj, disk, lastSave, firstBind>>

(* DeepSense.load_model *)
load_model(i) ==
    /\ obj[i].made
    /\ LET name == obj[i].name
           saver == obj[i].saver
           dir == disk[name]
       IN IF dir.has_state
          THEN IF ~saver.set
               THEN /\ ret' = [ op |-> "load_model", inst |-> i, result |-> "AttributeError" ]
                    /\ val' = val
               ELSE IF dir.latest \notin DOMAIN dir.files
               THEN /\ ret' = [ op |-> "load_model", inst |-> i, result |-> "NotFoundError" ]
                    /\ val' = val
               ELSE \E r \in Restored(saver, dir.files[dir.latest]) :
                    /\ val' = [ v \in DOMAIN val |->
                                  IF v \in r.assigned THEN dir.files[dir.latest][v] ELSE val[v] ]
                    /\ ret' = [ op |-> "load_model", inst |-> i, result |-> r.result ]
          ELSE /\ ret' = [ op |-> "load_model", inst |-> i, result |-> "False" ]
               /\ val' = val
    /\ read' = NoRead
    /\ UNCHANGED <<params, collection, obj, disk, lastSave, firstBind>>

(* The weights property. *)
weights(i) ==
    /\ obj[i].made
    /\ LET w == IF obj[i].weights.set THEN obj[i].weights.map
                ELSE WeightsOf(collection, obj[i].name)
       IN /\ obj' = [ obj EXCEPT ![i].weights = [ set |-> TRUE, map |-> w ] ]
          /\ read' = [ op |-> "weights", inst |-> i, first |-> ~obj[i].weights.set, map |-> w ]
    /\ ret' = NoRet
    /\ UNCHANGED <<params, collection, val, disk, lastSave, firstBind>>

(* A run of the graph of instance i on its batch: the values the last dense *)
(* layer yields (any, of the shape built) and the action computed from them.*)
Run(i, q) ==
    /\ obj[i].made
    /\ obj[i].graph.built
    /\ LET g == obj[i].graph
       IN IF Prod(g.conv_shape) # Prod(g.flat_shape)
          THEN /\ ret' = [ op |-> "run", inst |-> i, result |-> "InvalidArgumentError" ]
               /\ read' = NoRead
          ELSE /\ q \in [ 1..g.values[1] -> [ 1..g.values[2] -> QValues ] ]
               /\ ret' = NoRet
               /\ read' = [ op |-> "run", inst |-> i, values |-> q,
                            action |-> [ r \in 1..g.action[1] |-> arg_max(q[r]) ] ]
    /\ UNCHANGED <<params, collection, val, obj, disk, lastSave, firstBind>>

(* A parameter update run on the shared session (a training step, a target  *)
(* network copy): every variable under scope n takes the value v.           *)
Update(n, v) ==
    /\ OwnParams(n) # {}
    /\ \E x \in OwnParams(n) : val[x] # v
    /\ val' = [ x \in DOMAIN val |-> IF TopScope(x) = n THEN v ELSE val[x] ]
    /\ ret' = NoRet
    /\ read' = NoRead
    /\ lastSave' = [ m \in Names |-> IF m = n /\ lastSave[m].by # 0
                                      THEN [ lastSave[m] EXCEPT !.updated = TRUE ] ELSE lastSave[m] ]
    /\ UNCHANGED <<params, collection, obj, disk, firstBind>>

(* The process ends and a new one starts on the same save directory: a new  *)
(* graph and session, no instances; the directories stay.                   *)
Restart ==
    /\ \E i \in Instances : obj[i].made
    /\ collection' = <<>>
    /\ val' = EmptyMap
    /\ obj' = [ i \in Instances |-> NoObj ]
    /\ lastSave' = [ n \in Names |-> NoSave ]
    /\ firstBind' = [ n \in Names |-> EmptyMap ]
    /\ ret' = NoRet
    /\ read' = NoRead
    /\ UNCHANGED <<params, disk>>

-----------------------------------------------------------------------------
(* The specifications.                                                      *)

InitWith(bundles) ==
    /\ params \in bundles
    /\ collection = <<>>
    /\ val = EmptyMap
    /\ obj = [ i \in Instances |-> NoObj ]
    /\ disk = [ n \in Names |-> NoDir ]
    /\ ret = NoRet
    /\ read = NoRead
    /\ lastSave = [ n \in Names |-> NoSave ]
    /\ firstBind = [ n \in Names |-> EmptyMap ]

Init == InitWith(SessionBundles)

(* The instances of one model name, over several processes: their saves and *)
(* loads in the one directory, and the parameter updates in between.        *)
Next ==
    \/ \E i \in Instances : Construct(i, <<"q">>)
    \/ \E i \in Instances, reuse \in BOOLEAN : build_model(i, 1, TRUE, reuse)
    \/ \E i \in Instances, step \in Steps : save_model(i, step)
    \/ \E i \in Instances : load_model(i)
    \/ \E v \in Values : Update(<<"q">>, v)
    \/ Restart

Spec == Init /\ [][Next]_vars

(* Two models of different names in one session (an online and a target     *)
(* network), each saving to the one file of step 1.                         *)
NextTwo ==
    \/ Construct(1, <<"q">>)
    \/ Construct(2, <<"q", "t">>)
    \/ \E i \in Instances, reuse \in BOOLEAN : build_model(i, 1, TRUE, reuse)
    \/ \E i \in Instances : save_model(i, 1)
    \/ \E i \in Instances : load_model(i)
    \/ \E n \in Names, v \in Values : Update(n, v)

SpecTwo == Init /\ [][NextTwo]_vars

(* Several instances in one graph: the registry and the weights property.   *)
NextScope ==
    \/ \E i \in Instances, n \in Names : Construct(i, n)
    \/ \E i \in Instances, train \in BOOLEAN, reuse \in BOOLEAN : build_model(i, 1, train, reuse)
    \/ \E i \in Instances : weights(i)

SpecScope == Init /\ [][NextScope]_vars

(* One instance, every hyperparameter bundle: the graph built and its runs. *)
InitGraph == InitWith(ValidBundles)

NextGraph ==
    \/ Construct(1, <<"q">>)
    \/ \E b \in 1..MaxBatch, train \in BOOLEAN, reuse \in BOOLEAN : build_model(1, b, train, reuse)
    \/ \E q \in [ 1..obj[1].graph.batch_size -> [ 1..params.num_actions -> QValues ] ] : Run(1, q)

SpecGraph == InitGraph /\ [][NextGraph]_vars

(* One instance at a time saving step after step, over several processes:   *)
(* the retention of checkpoints.                                            *)
NextStep == IF disk[<<"q">>].has_state THEN disk[<<"q">>].latest + 1 ELSE 1

NextRetention ==
    \/ Construct(1, <<"q">>)
    \/ \E reuse \in BOOLEAN : build_model(1, 1, TRUE, reuse)
    \/ NextStep <= MaxSaves /\ save_model(1, NextStep)
    \/ load_model(1)
    \/ Restart

SpecRetention == Init /\ [][NextRetention]_vars

-----------------------------------------------------------------------------
(* The claims.                                                              *)

(* C1: the directory of a model never holds more than max_to_keep (30)      *)
(* checkpoints, and once more than 30 steps were saved it holds exactly the *)
(* 30 most recently saved ones.  Stated for the run that saves the steps    *)
(* 1, 2, 3, ... in turn, so that the most recent 30 are the last 30 steps.  *)
C1_KeepsThirtyMostRecent ==
    LET dir == disk[<<"q">>]
    IN /\ Cardinality(DOMAIN dir.files) <= max_to_keep
       /\ dir.latest > max_to_keep
            => DOMAIN dir.files = (dir.latest - max_to_keep + 1)..dir.latest

C3_LoadWithoutCheckpoint ==
    [][ \A i \in Instances :
            (load_model(i) /\ ~disk[obj[i].name].has_state)
            => (ret'.op = "load_model" /\ ret'.result = "False" /\ val' = val) ]_vars

(* C3's case: a load that returned False on a built instance whose          *)
(* parameters had been updated.                                             *)
C3_Witness ==
    /\ ret.op = "load_model"
    /\ ret.result = "False"
    /\ obj[ret.inst].graph.built
    /\ \E v \in OwnParams(obj[ret.inst].name) : val[v] # 0

(* C4: a load_model on a directory that holds a checkpoint returns True and *)
(* leaves the parameters at the values of the latest checkpoint, in any     *)
(* state of the instance, a newly constructed one included.                 *)
C4_LoadWithCheckpoint ==
    (ret.op = "load_model" /\ disk[obj[ret.inst].name].has_state)
    => /\ ret.result = "True"
       /\ LET dir == disk[obj[ret.inst].name]
          IN \A v \in DOMAIN dir.files[dir.latest] \cap DOMAIN val : val[v] = dir.files[dir.latest][v]

(* C5: once a build_model(reuse=False) created the parameters of a name, a  *)
(* build_model(reuse=True) under that name leaves the registry as it was,   *)
(* with no name twice, and binds every layer to the parameter the first     *)
(* build created for it.                                                    *)
C5_ReuseKeepsRegistry ==
    [][ \A i \in Instances, train \in BOOLEAN :
            (build_model(i, 1, train, TRUE) /\ firstBind[obj[i].name] # EmptyMap)
            => /\ collection' = collection
               /\ Cardinality(Range(collection')) = Len(collection')
               /\ obj'[i].graph.built
               /\ obj'[i].bind = firstBind[obj[i].name] ]_vars

(* C5's case: two instances built under one name, the second of which can   *)
(* only have been built with reuse, over one set of parameters.             *)
C5_Witness ==
    /\ obj[1].graph.built /\ obj[2].graph.built
    /\ obj[1].name = obj[2].name
    /\ obj[1].bind = obj[2].bind
    /\ Len(collection) = Len(KeysOf[params])

(* C6: a load_model of a built instance changes no parameter outside the    *)
(* instance's own name scope, and succeeds whenever its directory holds a   *)
(* checkpoint, whatever other models the session holds.                     *)
C6_LoadKeepsOtherScopes ==
    [][ \A i \in Instances :
            (load_model(i) /\ obj[i].saver.set)
            => /\ \A v \in DOMAIN val : TopScope(v) # obj[i].name => val'[v] = val[v]
               /\ disk[obj[i].name].has_state => ret'.result = "True" ]_vars

(* C7: the first read of weights yields exactly one entry per parameter of  *)
(* the model's own scope, keyed by the parameter's path below the scope,    *)
(* and none for a parameter of another model; a later read yields the       *)
(* mapping of the first.                                                    *)
C7_WeightsOfOwnScope ==
    read.op = "weights"
    => /\ read.map = obj[read.inst].weights.map
       /\ read.first =>
            /\ { read.map[key] : key \in DOMAIN read.map } = OwnParams(obj[read.inst].name)
            /\ \A key \in DOMAIN read.map : read.map[key] = VarName(obj[read.inst].name, key)

(* C8: the values of a run have one row per batch item and num_actions      *)
(* entries per row, the action one entry per batch item, and action[r] is an*)
(* index of a largest entry of values[r].                                   *)
C8_ValuesAndAction ==
    read.op = "run"
    => LET g == obj[read.inst].graph
       IN /\ g.values = <<g.batch_size, params.num_actions>>
          /\ g.action = <<g.batch_size>>
          /\ DOMAIN read.values = 1..g.batch_size
          /\ DOMAIN read.action = 1..g.batch_size
          /\ \A r \in 1..g.batch_size :
                /\ DOMAIN read.values[r] = 1..params.num_actions
                /\ read.action[r] \in 0..(params.num_actions - 1)
                /\ \A c \in 1..params.num_actions :
                      read.values[r][read.action[r] + 1] >= read.values[r][c]

(* C8's case: a run on a batch of several items in which some item's        *)
(* largest value is not its first.                                          *)
C8_Witness ==
    /\ read.op = "run"
    /\ obj[read.inst].graph.batch_size > 1
    /\ \E r \in DOMAIN read.action : read.action[r] > 0

(* C9: in training mode every dropout layer keeps a unit with the           *)
(* keep-probability configured for it: conv_keep_prob, dense_keep_prob,     *)
(* gru_keep_prob.                                                           *)
C9_KeepProbIsSurvival ==
    \A i \in Instances :
        (obj[i].graph.built /\ obj[i].graph.train)
        => \A k \in DOMAIN obj[i].graph.dropouts :
              obj[i].graph.dropouts[k].keep = obj[i].graph.dropouts[k].configured

(* C10: the window size build_model tracks through the convolution stack is *)
(* the width of the stack's output, so the flatten reshape has as many      *)
(* elements as the convolution output.                                      *)
C10_FlattenMatchesConv ==
    \A i \in Instances :
        obj[i].graph.built
        => /\ obj[i].graph.conv_shape[3] = obj[i].graph.window_size
           /\ Prod(obj[i].graph.conv_shape) = Prod(obj[i].graph.flat_shape)

(* C10's case: a graph built over two convolution stages that narrow the    *)
(* window.                                                                  *)
C10_Witness ==
    /\ obj[1].graph.built
    /\ Len(params.kernel_sizes) = 2
    /\ obj[1].graph.window_size < params.window_size - 1

====
